---- MODULE Spec2Model ----
(***************************************************************************)
(* Model of the Kyzylorda incident backend (src/backend/main.py):          *)
(*   - ConnectionManager and the /ws and /broadcast-incident handlers,     *)
(*   - geocode_street,                                                     *)
(*   - parse_with_gemini and the /parse-news handler.                      *)
(* Coroutines are cut at their await points: one action is the code that   *)
(* runs between two suspensions of a handler.                              *)
(***************************************************************************)
EXTENDS Integers, Sequences, FiniteSets, TLC

\* ------------------------------------------------------------------------
\* Bounds
\* ------------------------------------------------------------------------
NumConn == 2
NumBcast == 2
NumSock == 3

Conns == 1..NumConn
Bcasts == 1..NumBcast
\* websockets handed to ConnectionManager by a direct caller
Socks == 1..NumSock
NoConn == 0

VARIABLES
    active_connections,   \* ConnectionManager.active_connections (a list)
    accepted,             \* websockets whose accept() has completed
    hpc,                  \* position of each /ws handler
    bstate,               \* one record per /broadcast-incident request
    mcall,                \* outcome of the last direct ConnectionManager call
    received              \* per websocket, the broadcasts whose event it got, in order

hubvars == <<active_connections, accepted, hpc, bstate, mcall, received>>

VARIABLES
    geo,        \* what Nominatim answers to the query of each candidate
    glocation,  \* the argument of geocode_street
    gpc,        \* position of geocode_street
    gi,         \* index of the candidate whose requests.get is in flight
    gqueried,   \* indices of the candidates queried so far, in order
    gresult     \* the value geocode_street returned

geovars == <<geo, glocation, gpc, gi, gqueried, gresult>>

VARIABLES
    text,          \* NewsRequest.text of the /parse-news request
    api_key,       \* whether GEMINI_API_KEY is set
    ppc,           \* position of the /parse-news handler
    gemini_calls,  \* number of requests.post calls to the generation service
    data,          \* the dict _extract_json returned
    response       \* the HTTP response of /parse-news

parsevars == <<text, api_key, ppc, gemini_calls, data, response>>

VARIABLES
    nvalue,   \* the string value of the clean reply x
    ntext,    \* the reply text handed to _extract_json
    npc,      \* position of the _extract_json call
    nresult   \* what _extract_json returned or raised

normvars == <<nvalue, ntext, npc, nresult>>

VARIABLES
    message_text,     \* event.message.text of the message the monitor handles
    mpc,              \* position of the monitor's handler
    parse_calls,      \* requests.post calls to /parse-news for this message
    broadcast_calls,  \* requests.post calls to /broadcast-incident for it
    parse_reply,      \* what the /parse-news call gave
    parsed,           \* what parse_news_via_api returned
    broadcast_reply   \* what the /broadcast-incident call gave

monvars == <<message_text, mpc, parse_calls, broadcast_calls, parse_reply, parsed,
             broadcast_reply>>

auxvars == <<normvars, monvars>>

reqvars == <<geovars, parsevars, auxvars>>

vars == <<hubvars, geovars, parsevars, auxvars>>

Range(s) == {s[i] : i \in 1..Len(s)}

\* ------------------------------------------------------------------------
\* Python list operations used by ConnectionManager
\* ------------------------------------------------------------------------
\* list.index: position of the first occurrence, 0 when absent
ListIndex(s, x) ==
    IF x \in Range(s) THEN CHOOSE i \in 1..Len(s) : s[i] = x /\ \A j \in 1..(i-1) : s[j] # x
    ELSE 0

\* list.remove(x): removes the first occurrence, raises ValueError when absent
ListRemove(s, x) ==
    LET i == ListIndex(s, x) IN
    IF i = 0 THEN [raised |-> "ValueError", list |-> s]
    ELSE [raised |-> "none", list |-> SubSeq(s, 1, i-1) \o SubSeq(s, i+1, Len(s))]

\* ConnectionManager.connect after accept() returned: append
connect(list, websocket) == Append(list, websocket)

\* ConnectionManager.disconnect
disconnect(list, websocket) == ListRemove(list, websocket)

\* ------------------------------------------------------------------------
\* ConnectionManager.broadcast: "for connection in self.active_connections"
\* The list iterator keeps an index into the live list.
\* ------------------------------------------------------------------------
IdleBroadcast ==
    [pc |-> "idle", idx |-> 0, cur |-> NoConn, attempted |-> <<>>,
     delivered |-> {}, failed |-> {}, start |-> {}, stayed |-> {},
     changed |-> FALSE, connections |-> -1]

\* a request whose response the caller has read: its history is dropped
Answered == [IdleBroadcast EXCEPT !.pc = "answered"]

\* next(iterator) followed by the call of send_json on the item, or the end
\* of the loop and the return of broadcast_incident
ListIterNext(r, list) ==
    IF r.idx < Len(list)
    THEN [r EXCEPT !.pc = "send", !.cur = list[r.idx + 1], !.idx = r.idx + 1,
                   !.attempted = Append(@, list[r.idx + 1])]
    ELSE [r EXCEPT !.pc = "done", !.cur = NoConn, !.connections = Len(list)]

\* send_json returned normally
SendReturned(r, list) ==
    ListIterNext([r EXCEPT !.delivered = @ \cup {r.cur}], list)

\* send_json raised and the loop aborts with the exception
SendRaisedPropagates(r, list) ==
    [r EXCEPT !.failed = @ \cup {r.cur}, !.pc = "raised", !.cur = NoConn]

\* send_json raised: "except Exception" logs and the loop goes on
SendRaised(r, list) ==
    ListIterNext([r EXCEPT !.failed = @ \cup {r.cur}], list)

\* history kept for the broadcasts in flight when the list changes
NoteAppend(bs) ==
    [b \in Bcasts |-> IF bs[b].pc = "send" THEN [bs[b] EXCEPT !.changed = TRUE] ELSE bs[b]]

NoteRemove(bs, w) ==
    [b \in Bcasts |-> IF bs[b].pc = "send"
                      THEN [bs[b] EXCEPT !.changed = TRUE, !.stayed = @ \ {w}]
                      ELSE bs[b]]

\* ------------------------------------------------------------------------
\* /broadcast-incident
\* ------------------------------------------------------------------------
\* a handler that starts the broadcast as a task and answers at once: the
\* caller's next request arrives while the previous broadcast is still sending
broadcast_incident_not_awaited(b) ==
    /\ bstate[b].pc = "idle"
    /\ \A o \in Bcasts : o < b => bstate[o].pc # "idle"
    /\ bstate' = [bstate EXCEPT ![b] =
            ListIterNext([bstate[b] EXCEPT !.start = Range(active_connections),
                                           !.stayed = Range(active_connections)],
                         active_connections)]
    /\ UNCHANGED <<active_connections, accepted, hpc, mcall>>
    /\ UNCHANGED <<received, reqvars>>

\* The requests are numbered in their order of arrival. The caller of the
\* endpoint, broadcast_incident of telegram_monitor.py, posts one incident
\* at a time and waits for the response, so a request arrives only when the
\* previous one has been answered.
broadcast_incident(b) ==
    /\ bstate[b].pc = "idle"
    /\ \A o \in Bcasts : o < b => bstate[o].pc \in {"done", "answered"}
    /\ bstate' = [o \in Bcasts |->
            IF o = b
            THEN ListIterNext([bstate[b] EXCEPT !.start = Range(active_connections),
                                                !.stayed = Range(active_connections)],
                              active_connections)
            ELSE IF bstate[o].pc = "done" THEN Answered ELSE bstate[o]]
    /\ UNCHANGED <<active_connections, accepted, hpc, mcall>>
    /\ UNCHANGED <<received, reqvars>>

\* a broadcast that drops an observer from the list when its send raises
broadcast_send_return_prune(b, ok) ==
    /\ bstate[b].pc = "send"
    /\ active_connections' =
            IF ok THEN active_connections
                  ELSE disconnect(active_connections, bstate[b].cur).list
    /\ bstate' = [bstate EXCEPT ![b] =
            IF ok THEN SendReturned(bstate[b], active_connections)
                  ELSE SendRaised(bstate[b], active_connections)]
    /\ UNCHANGED <<accepted, hpc, mcall>>
    /\ received' =
            IF ok THEN [received EXCEPT ![bstate[b].cur] = Append(@, b)]
                  ELSE received
    /\ UNCHANGED reqvars

\* send_json returned or raised; the coroutine runs on to its next await
broadcast_send_return(b, ok) ==
    /\ bstate[b].pc = "send"
    /\ bstate' = [bstate EXCEPT ![b] =
            IF ok THEN SendReturned(bstate[b], active_connections)
                  ELSE SendRaised(bstate[b], active_connections)]
    /\ UNCHANGED <<active_connections, accepted, hpc, mcall>>
    /\ received' =
            IF ok THEN [received EXCEPT ![bstate[b].cur] = Append(@, b)]
                  ELSE received
    /\ UNCHANGED reqvars

\* ------------------------------------------------------------------------
\* /ws
\* ------------------------------------------------------------------------
Exceptions == {"WebSocketDisconnect", "Other"}

\* the handler is entered and awaits websocket.accept()
websocket_endpoint(w) ==
    /\ hpc[w] = "new"
    /\ hpc' = [hpc EXCEPT ![w] = "accept"]
    /\ UNCHANGED <<active_connections, accepted, bstate, mcall>>
    /\ UNCHANGED <<received, reqvars>>

\* accept() returned: manager.connect appends, the loop awaits receive_text()
accept_return(w) ==
    /\ hpc[w] = "accept"
    /\ active_connections' = connect(active_connections, w)
    /\ accepted' = accepted \cup {w}
    /\ bstate' = NoteAppend(bstate)
    /\ hpc' = [hpc EXCEPT ![w] = "receive"]
    /\ UNCHANGED mcall
    /\ UNCHANGED <<received, reqvars>>

\* accept() raised: connect is outside the try, the handler ends
accept_raise(w) ==
    /\ hpc[w] = "accept"
    /\ hpc' = [hpc EXCEPT ![w] = "crashed"]
    /\ UNCHANGED <<active_connections, accepted, bstate, mcall>>
    /\ UNCHANGED <<received, reqvars>>

\* what the handler does with an exception raised inside its try block
HandlerExcept(w, exc) ==
    IF exc = "WebSocketDisconnect"
    THEN /\ active_connections' = disconnect(active_connections, w).list
         /\ bstate' = NoteRemove(bstate, w)
         /\ hpc' = [hpc EXCEPT ![w] =
                IF disconnect(active_connections, w).raised = "none" THEN "closed" ELSE "crashed"]
    ELSE /\ hpc' = [hpc EXCEPT ![w] = "crashed"]
         /\ UNCHANGED <<active_connections, bstate>>

\* receive_text() returned: the echo send_json is awaited
receive_return(w) ==
    /\ hpc[w] = "receive"
    /\ hpc' = [hpc EXCEPT ![w] = "echo"]
    /\ UNCHANGED <<active_connections, accepted, bstate, mcall>>
    /\ UNCHANGED <<received, reqvars>>

receive_raise(w, exc) ==
    /\ hpc[w] = "receive"
    /\ HandlerExcept(w, exc)
    /\ UNCHANGED <<accepted, mcall>>
    /\ UNCHANGED <<received, reqvars>>

\* the echo send_json returned: back to receive_text()
echo_return(w) ==
    /\ hpc[w] = "echo"
    /\ hpc' = [hpc EXCEPT ![w] = "receive"]
    /\ UNCHANGED <<active_connections, accepted, bstate, mcall>>
    /\ UNCHANGED <<received, reqvars>>

echo_raise(w, exc) ==
    /\ hpc[w] = "echo"
    /\ HandlerExcept(w, exc)
    /\ UNCHANGED <<accepted, mcall>>
    /\ UNCHANGED <<received, reqvars>>

\* ------------------------------------------------------------------------
\* ConnectionManager called directly, with any websocket
\* ------------------------------------------------------------------------
manager_connect(w) ==
    /\ w \notin accepted
    /\ accepted' = accepted \cup {w}
    /\ active_connections' = connect(active_connections, w)
    /\ mcall' = [op |-> "connect", ws |-> w, raised |-> "none", before |-> active_connections]
    /\ UNCHANGED <<hpc, bstate>>
    /\ UNCHANGED <<received, reqvars>>

manager_disconnect(w) ==
    /\ active_connections' = disconnect(active_connections, w).list
    /\ mcall' = [op |-> "disconnect", ws |-> w,
                 raised |-> disconnect(active_connections, w).raised,
                 before |-> active_connections]
    /\ UNCHANGED <<accepted, hpc, bstate>>
    /\ UNCHANGED <<received, reqvars>>

InitHub ==
    /\ active_connections = <<>>
    /\ accepted = {}
    /\ hpc = [w \in Conns |-> "new"]
    /\ bstate = [b \in Bcasts |-> IdleBroadcast]
    /\ mcall = [op |-> "none", ws |-> NoConn, raised |-> "none", before |-> <<>>]
    /\ received = [w \in Conns |-> <<>>]

NextHub ==
    \/ \E b \in Bcasts : broadcast_incident(b)
    \/ \E b \in Bcasts, ok \in BOOLEAN : broadcast_send_return(b, ok)
    \/ \E w \in Conns : websocket_endpoint(w)
    \/ \E w \in Conns : accept_return(w)
    \/ \E w \in Conns : accept_raise(w)
    \/ \E w \in Conns : receive_return(w)
    \/ \E w \in Conns, exc \in Exceptions : receive_raise(w, exc)
    \/ \E w \in Conns : echo_return(w)
    \/ \E w \in Conns, exc \in Exceptions : echo_raise(w, exc)

\* ------------------------------------------------------------------------
\* geocode_street
\* Coordinates are integers, in units of 0.0001 degree.
\* ------------------------------------------------------------------------
LatMin == 447000
LatMax == 450000
LonMin == 653000
LonMax == 657000
CenterLat == 448488
CenterLng == 654823

NoResult == [kind |-> "unset", lat |-> 0, lng |-> 0]
Coords(lat, lng) == [kind |-> "coords", lat |-> lat, lng |-> lng]
CityCenter == Coords(CenterLat, CenterLng)

\* the four f-strings of search_queries
search_queries ==
    << [strip |-> "", suffix |-> ", Kyzylorda, Kazakhstan (Cyrillic)"],
       [strip |-> "", suffix |-> ", Kyzylorda, Kazakhstan"],
       [strip |-> "ulitsa (Cyrillic)", suffix |-> ", Kyzylorda (Cyrillic)"],
       [strip |-> "street", suffix |-> ", Kyzylorda"] >>

NumQueries == Len(search_queries)

\* outcomes of requests.get and of decoding its response for one query
\*   error    requests.get raised (transport error, timeout)
\*   status   status_code is not 200
\*   badjson  response.json() raised
\*   empty    the body is an empty list
\*   nolat    data[0] has no usable "lat"/"lon" (KeyError, ValueError)
\*   hit      data[0] carries lat and lon
Miss(k) == [kind |-> k, lat |-> 0, lon |-> 0]
Hit(lat, lon) == [kind |-> "hit", lat |-> lat, lon |-> lon]
MissKinds == {"error", "status", "badjson", "empty", "nolat"}
RaisingKinds == {"error", "badjson", "nolat"}
LatVals == {447000, 448000, 449000}
LonVals == {655000, 657000, 658000}
Outcomes == {Miss(k) : k \in MissKinds} \cup {Hit(a, o) : a \in LatVals, o \in LonVals}

\* "if 44.7 < lat" alone: the longitude is not tested
InBoundsLatOnly(lat, lon) == LatMin < lat /\ lat < LatMax

\* "if 44.7 < lat < 45.0 and 65.3 < lon < 65.7"
InBounds(lat, lon) == LatMin < lat /\ lat < LatMax /\ LonMin < lon /\ lon < LonMax

\* the body of the for loop for one response: "return", "continue" or "raise"
LoopBody(out) ==
    IF out.kind \in RaisingKinds THEN "raise"
    ELSE IF out.kind = "hit" /\ InBounds(out.lat, out.lon) THEN "return"
    ELSE "continue"

\* an exception leaves geocode_street
ExceptPropagates == [pc |-> "raised", result |-> NoResult]

\* "except Exception as e": the city center is returned
Except == [pc |-> "returned", result |-> CityCenter]

\* entry of geocode_street: the queries are built (str.replace, str.strip)
\* and the first requests.get is issued
GeocodeEntry(location) ==
    /\ glocation' = location
    /\ IF location = "str"
       THEN /\ gpc' = "query" /\ gi' = 1 /\ gqueried' = <<1>> /\ gresult' = NoResult
       ELSE /\ gpc' = Except.pc /\ gresult' = Except.result
            /\ gi' = 0 /\ gqueried' = <<>>
    /\ UNCHANGED geo

\* the requests.get of candidate gi is over; the loop runs to the next
\* requests.get or to a return
GeocodeStep ==
    /\ gpc = "query"
    /\ LET act == LoopBody(geo[gi]) IN
         CASE act = "return" ->
                /\ gpc' = "returned"
                /\ gresult' = Coords(geo[gi].lat, geo[gi].lon)
                /\ UNCHANGED <<gi, gqueried>>
           [] act = "raise" ->
                /\ gpc' = Except.pc
                /\ gresult' = Except.result
                /\ UNCHANGED <<gi, gqueried>>
           [] act = "continue" /\ gi < NumQueries ->
                /\ gi' = gi + 1
                /\ gqueried' = Append(gqueried, gi + 1)
                /\ UNCHANGED <<gpc, gresult>>
           [] act = "continue" /\ gi = NumQueries ->
                /\ gpc' = "returned"
                /\ gresult' = CityCenter
                /\ UNCHANGED <<gi, gqueried>>
    /\ UNCHANGED <<geo, glocation>>

\* geocode_street called on its own
geocode_street ==
    /\ gpc = "idle"
    /\ \E location \in {"str", "nonstr"} : GeocodeEntry(location)
    /\ UNCHANGED <<hubvars, parsevars, auxvars>>

geocode_response ==
    /\ GeocodeStep
    /\ UNCHANGED <<hubvars, parsevars, auxvars>>

\* ------------------------------------------------------------------------
\* /parse-news and parse_with_gemini
\* ------------------------------------------------------------------------
MaxText == 2

\* characters of the request text: a whitespace and a non-whitespace one
Chars == {" ", "a"}
Whitespace == {" ", "\n"}

RECURSIVE LStrip(_)
LStrip(s) ==
    IF s # <<>> /\ Head(s) \in Whitespace THEN LStrip(Tail(s)) ELSE s

RECURSIVE RStrip(_)
RStrip(s) ==
    IF s # <<>> /\ s[Len(s)] \in Whitespace THEN RStrip(SubSeq(s, 1, Len(s) - 1)) ELSE s

\* str.strip()
Strip(s) == RStrip(LStrip(s))

\* "if not payload.text:" without the strip
IsBlankNoStrip(s) == s = <<>>

\* "if not payload.text.strip():"
IsBlank(s) == Strip(s) = <<>>

Texts == UNION {[1..n -> Chars] : n \in 0..MaxText}

\* values of a key of the decoded reply
Missing == "<missing>"
Null == "<null>"

\* Severity = Literal["low", "medium", "high", "critical"]
Severity == {"low", "medium", "high", "critical"}

LocationVals == {Missing, Null, "", "ulitsa Abaya"}
EventTypeVals == {Missing, "", "accident", "flood"}
SeverityVals == {Missing, "medium", "extreme"}
DurationVals == {Missing, Null, "", "2 hours"}

Objects ==
    [kind : {"object"}, location : LocationVals, event_type : EventTypeVals,
     severity : SeverityVals, duration : DurationVals]

NoData ==
    [kind |-> "unset", location |-> Missing, event_type |-> Missing,
     severity |-> Missing, duration |-> Missing]

\* json.loads gives a list, a string or a number
NonObject == [NoData EXCEPT !.kind = "nonobject"]
\* json.loads raises JSONDecodeError
Garbage == [NoData EXCEPT !.kind = "garbage"]

\* the text of the model reply, by what _extract_json makes of it
ModelTexts == Objects \cup {NonObject, Garbage}

\* _extract_json(model_text): the decoded value, or JSONDecodeError
extract_json(model_text) ==
    IF model_text.kind = "garbage"
    THEN [raised |-> "JSONDecodeError", value |-> NoData]
    ELSE [raised |-> "none", value |-> model_text]

\* outcomes of requests.post to the generation service and of reading the
\* text of its first candidate
\*   error   requests.post raised (transport error, timeout)
\*   status  status_code is not 200
\*   badjson resp.json() raised
\*   notext  no candidates[0].content.parts[0].text
GeminiFailures == {"error", "status", "badjson", "notext"}

NoIncident ==
    [location |-> Missing, event_type |-> Missing, severity |-> Missing,
     duration |-> Missing, coordinates |-> NoResult]

NoResponse == [status |-> 0, incident |-> NoIncident, detail |-> ""]
HTTPException(status, detail) == [status |-> status, incident |-> NoIncident, detail |-> detail]

\* a field declared "str = Field(...)": required, None is not a str
ValidStr(v) == v # Missing /\ v # Null

\* ParsedNews(**data, raw_model_response=...): pydantic validation
ParsedNews(d, coordinates) ==
    IF /\ ValidStr(d.location)
       /\ ValidStr(d.event_type)
       /\ d.severity \in Severity
       /\ ValidStr(d.duration)
       /\ coordinates.kind = "coords"
    THEN [raised |-> "none",
          value |-> [location |-> d.location, event_type |-> d.event_type,
                     severity |-> d.severity, duration |-> d.duration,
                     coordinates |-> coordinates]]
    ELSE [raised |-> "ValidationError", value |-> NoIncident]

\* location = data.get("location", ""), as geocode_street sees it
LocationArg(d) ==
    IF d.location = Null THEN "nonstr" ELSE "str"

\* parse_news: 200 with the ParsedNews, or "except Exception" -> 500
Respond(r) ==
    IF r.raised = "none"
    THEN [status |-> 200, incident |-> r.value, detail |-> ""]
    ELSE HTTPException(500, r.raised)

\* the rest of parse_with_gemini once geocode_street is over
AfterGeocode ==
    /\ ppc' = "done"
    /\ response' =
          IF gpc' = "raised" THEN HTTPException(500, "geocode_street")
          ELSE Respond(ParsedNews(data', gresult'))

\* the request arrives: input check, credential check, requests.post
parse_news ==
    /\ ppc = "idle"
    /\ IF IsBlank(text)
       THEN /\ ppc' = "done"
            /\ response' = HTTPException(400, "Text must not be empty.")
            /\ UNCHANGED gemini_calls
       ELSE IF ~api_key
       THEN /\ ppc' = "done"
            /\ response' = HTTPException(500, "ValueError")
            /\ UNCHANGED gemini_calls
       ELSE /\ ppc' = "gemini"
            /\ gemini_calls' = gemini_calls + 1
            /\ UNCHANGED response
    /\ UNCHANGED <<text, api_key, data, geovars, hubvars, auxvars>>

\* requests.post failed, or the reply carries no text
gemini_failure(f) ==
    /\ ppc = "gemini"
    /\ ppc' = "done"
    /\ response' = HTTPException(500, f)
    /\ UNCHANGED <<text, api_key, gemini_calls, data, geovars, hubvars, auxvars>>

\* requests.post returned the model text: _extract_json, then geocode_street
gemini_text(model_text) ==
    /\ ppc = "gemini"
    /\ LET j == extract_json(model_text) IN
         IF j.raised # "none"
         THEN /\ ppc' = "done"
              /\ response' = HTTPException(500, j.raised)
              /\ UNCHANGED <<data, geovars>>
         ELSE IF j.value.kind # "object"
         THEN /\ ppc' = "done"
              /\ response' = HTTPException(500, "AttributeError")
              /\ data' = j.value
              /\ UNCHANGED geovars
         ELSE /\ data' = j.value
              /\ GeocodeEntry(LocationArg(j.value))
              /\ IF gpc' = "query"
                 THEN ppc' = "geocode" /\ UNCHANGED response
                 ELSE AfterGeocode
    /\ UNCHANGED <<text, api_key, gemini_calls, hubvars, auxvars>>

\* a requests.get of geocode_street is over, within parse_with_gemini
parse_geocode_response ==
    /\ ppc = "geocode"
    /\ GeocodeStep
    /\ UNCHANGED data
    /\ IF gpc' = "query"
       THEN UNCHANGED <<ppc, response>>
       ELSE AfterGeocode
    /\ UNCHANGED <<text, api_key, gemini_calls, hubvars, auxvars>>

\* ------------------------------------------------------------------------
\* _extract_json on the characters of the reply
\* A text is a sequence of characters; the three backticks of a fence marker
\* are one element, FENCE.
\* ------------------------------------------------------------------------
MaxValue == 2

Fence == "FENCE"
Quote == "\""

IndexFrom(s, c, from) ==
    IF \E i \in from..Len(s) : s[i] = c
    THEN CHOOSE i \in from..Len(s) : s[i] = c /\ \A j \in from..(i-1) : s[j] # c
    ELSE 0

\* str.splitlines()
RECURSIVE SplitLines(_)
SplitLines(s) ==
    IF s = <<>> THEN <<>>
    ELSE LET i == IndexFrom(s, "\n", 1) IN
         IF i = 0 THEN <<s>>
         ELSE <<SubSeq(s, 1, i - 1)>> \o SplitLines(SubSeq(s, i + 1, Len(s)))

\* "\n".join(lines)
RECURSIVE JoinLines(_)
JoinLines(ls) ==
    IF ls = <<>> THEN <<>>
    ELSE IF Len(ls) = 1 THEN ls[1]
    ELSE ls[1] \o <<"\n">> \o JoinLines(Tail(ls))

StartsWithFence(s) == s # <<>> /\ s[1] = Fence

\* "if text.startswith(<fence>)": drop the first line, drop the last line when
\* it starts with the marker, join and strip
StripFences(s) ==
    IF ~StartsWithFence(s) THEN s
    ELSE LET l1 == Tail(SplitLines(s))
             l2 == IF l1 # <<>> /\ StartsWithFence(Strip(l1[Len(l1)]))
                   THEN SubSeq(l1, 1, Len(l1) - 1) ELSE l1
         IN Strip(JoinLines(l2))

\* re.sub(r'//[^\n]*', '', text)
RECURSIVE RemoveLineComments(_)
RemoveLineComments(s) ==
    IF s = <<>> THEN <<>>
    ELSE IF Len(s) >= 2 /\ s[1] = "/" /\ s[2] = "/"
    THEN LET i == IndexFrom(s, "\n", 3) IN
         IF i = 0 THEN <<>> ELSE RemoveLineComments(SubSeq(s, i, Len(s)))
    ELSE <<s[1]>> \o RemoveLineComments(Tail(s))

\* position of the "*" of the first "*/" at or after from, 0 when none
CloseFrom(s, from) ==
    IF \E i \in from..(Len(s) - 1) : s[i] = "*" /\ s[i + 1] = "/"
    THEN CHOOSE i \in from..(Len(s) - 1) :
            /\ s[i] = "*" /\ s[i + 1] = "/"
            /\ \A j \in from..(i - 1) : ~(s[j] = "*" /\ s[j + 1] = "/")
    ELSE 0

\* re.sub(r'/\*.*?\*/', '', text, flags=re.DOTALL)
RECURSIVE RemoveBlockComments(_)
RemoveBlockComments(s) ==
    IF s = <<>> THEN <<>>
    ELSE IF Len(s) >= 2 /\ s[1] = "/" /\ s[2] = "*" /\ CloseFrom(s, 3) # 0
    THEN RemoveBlockComments(SubSeq(s, CloseFrom(s, 3) + 2, Len(s)))
    ELSE <<s[1]>> \o RemoveBlockComments(Tail(s))

\* position of the first non-whitespace character at or after from
RECURSIVE SkipWs(_, _)
SkipWs(s, from) ==
    IF from <= Len(s) /\ s[from] \in Whitespace THEN SkipWs(s, from + 1) ELSE from

\* re.sub(r',(\s*[}\]])', r'\1', text)
RECURSIVE RemoveTrailingCommas(_)
RemoveTrailingCommas(s) ==
    IF s = <<>> THEN <<>>
    ELSE LET k == SkipWs(s, 2) IN
         IF s[1] = "," /\ k <= Len(s) /\ s[k] \in {"}", "]"}
         THEN SubSeq(s, 2, k) \o RemoveTrailingCommas(SubSeq(s, k + 1, Len(s)))
         ELSE <<s[1]>> \o RemoveTrailingCommas(Tail(s))

\* re.search(r'\{.*\}', text, re.DOTALL): from the first "{" to the last "}"
SearchObject(s) ==
    LET i == IndexFrom(s, "{", 1) IN
    IF i # 0 /\ \E j \in (i + 1)..Len(s) : s[j] = "}"
    THEN SubSeq(s, i, CHOOSE j \in (i + 1)..Len(s) :
                        s[j] = "}" /\ \A m \in (j + 1)..Len(s) : s[m] # "}")
    ELSE s

JSONDecodeError == [raised |-> "JSONDecodeError", key |-> <<>>, val |-> <<>>]
JSONObject(k, v) == [raised |-> "none", key |-> k, val |-> v]

\* json.loads on the texts that are an object with one string member; every
\* other text over the characters used here is not valid JSON
json_loads(s0) ==
    LET s == Strip(s0)
        n == Len(s)
        q1 == SkipWs(s, 2)
        q2 == IndexFrom(s, Quote, q1 + 1)
        c == SkipWs(s, q2 + 1)
        q3 == SkipWs(s, c + 1)
        q4 == IndexFrom(s, Quote, q3 + 1)
        e == SkipWs(s, q4 + 1)
    IN
    IF /\ n >= 2 /\ s[1] = "{"
       /\ q1 <= n /\ s[q1] = Quote
       /\ q2 # 0
       /\ c <= n /\ s[c] = ":"
       /\ q3 <= n /\ s[q3] = Quote
       /\ q4 # 0
       /\ e = n /\ s[e] = "}"
       /\ \A i \in (q1 + 1)..(q2 - 1) : s[i] # "\n"
       /\ \A i \in (q3 + 1)..(q4 - 1) : s[i] # "\n"
    THEN JSONObject(SubSeq(s, q1 + 1, q2 - 1), SubSeq(s, q3 + 1, q4 - 1))
    ELSE JSONDecodeError

\* _extract_json(text)
ExtractJsonText(t) ==
    json_loads(SearchObject(RemoveTrailingCommas(RemoveBlockComments(
        RemoveLineComments(StripFences(Strip(t)))))))

\* the clean reply {"k": "<value>"} and the ways a model decorates it
ValueChars == {"a", "/", "*", ",", "}"}
Values == UNION {[1..n -> ValueChars] : n \in 0..MaxValue}
Comments == {"none", "line", "block"}

Decorated(v, fenced, comma, comment) ==
    LET body ==
            <<"{", Quote, "k", Quote, ":", " ", Quote>> \o v \o <<Quote>>
            \o (IF comma THEN <<",">> ELSE <<>>)
            \o (IF comment = "line" THEN <<" ", "/", "/", "c", "\n">>
                ELSE IF comment = "block" THEN <<" ", "/", "*", "c", "*", "/">>
                ELSE <<>>)
            \o <<"}">>
    IN IF fenced THEN <<Fence, "\n">> \o body \o <<"\n", Fence>> ELSE body

CleanReply(v) == Decorated(v, FALSE, FALSE, "none")

InitNormIdle ==
    /\ nvalue = <<>>
    /\ ntext = <<>>
    /\ npc = "none"
    /\ nresult = JSONDecodeError

extract_json_call ==
    /\ npc = "call"
    /\ npc' = "done"
    /\ nresult' = ExtractJsonText(ntext)
    /\ UNCHANGED <<nvalue, ntext, hubvars, geovars, parsevars, monvars>>

(***************************************************************************)
(* telegram_monitor.py: the handler of a new channel message               *)
(***************************************************************************)

\* longest run of non-whitespace characters and longest padding of a message
MaxCore == 11
MaxPad == 1

\* "len(message_text.strip()) < 10"
MinLength == 10

PyNone == "None"

\* event.message.text: None, or a text padded with whitespace on both sides
NoMessage == [none |-> TRUE, text |-> <<>>]

Pads == UNION {[1..n -> Whitespace] : n \in 0..MaxPad}

Messages ==
    {NoMessage} \cup
    {[none |-> FALSE, text |-> l \o [i \in 1..c |-> "a"] \o t] :
        l \in Pads, c \in 0..MaxCore, t \in Pads}

\* "len(message_text) < 10" without the strip
IgnoredNoStrip(m) == m.none \/ m.text = <<>> \/ Len(m.text) < MinLength

\* "if not message_text or len(message_text.strip()) < 10: return"
Ignored(m) == m.none \/ m.text = <<>> \/ Len(Strip(m.text)) < MinLength

\* what requests.post gives: an exception, or a response with a status code
\* and a body
Bodies == {"notjson", "null", "list", "{}", "incident"}
Dicts == {"{}", "incident"}
NoReply == [kind |-> "none", status |-> 0, body |-> "notjson"]
Replies ==
    {[kind |-> "raise", status |-> 0, body |-> "notjson"]} \cup
    {[kind |-> "response", status |-> s, body |-> b] : s \in {200, 422, 500}, b \in Bodies}

\* the body of the try block of parse_news_via_api
parse_news_try(reply) ==
    IF reply.kind = "raise" THEN [raised |-> TRUE, value |-> PyNone]
    ELSE IF reply.status = 200
    THEN IF reply.body = "notjson" THEN [raised |-> TRUE, value |-> PyNone]
         ELSE IF reply.body \notin Dicts THEN [raised |-> TRUE, value |-> PyNone]
         ELSE [raised |-> FALSE, value |-> reply.body]
    ELSE [raised |-> FALSE, value |-> PyNone]

\* parse_news_via_api: "except Exception" returns None
parse_news_via_api(reply) ==
    IF parse_news_try(reply).raised THEN [raised |-> FALSE, value |-> PyNone]
    ELSE parse_news_try(reply)

\* the body of the try block of broadcast_incident of the monitor
monitor_broadcast_try(reply) ==
    IF reply.kind = "raise" THEN [raised |-> TRUE, value |-> FALSE]
    ELSE IF reply.status = 200
    THEN IF reply.body \notin Dicts THEN [raised |-> TRUE, value |-> FALSE]
         ELSE [raised |-> FALSE, value |-> TRUE]
    ELSE [raised |-> FALSE, value |-> FALSE]

\* broadcast_incident of the monitor: "except Exception" returns False
monitor_broadcast_incident(reply) ==
    IF monitor_broadcast_try(reply).raised THEN [raised |-> FALSE, value |-> FALSE]
    ELSE monitor_broadcast_try(reply)

\* "if parsed:": None and the empty dict are false
Truthy(v) == v = "incident"

InitMonIdle ==
    /\ message_text = NoMessage
    /\ mpc = "idle"
    /\ parse_calls = 0
    /\ broadcast_calls = 0
    /\ parse_reply = NoReply
    /\ parsed = PyNone
    /\ broadcast_reply = NoReply

\* a new message arrives: the length check, then requests.post to /parse-news
handler(m) ==
    /\ mpc \in {"idle", "returned"}
    /\ message_text' = m
    /\ broadcast_calls' = 0
    /\ parse_reply' = NoReply
    /\ parsed' = PyNone
    /\ broadcast_reply' = NoReply
    /\ IF Ignored(m)
       THEN /\ mpc' = "returned"
            /\ parse_calls' = 0
       ELSE /\ mpc' = "parse"
            /\ parse_calls' = 1
    /\ UNCHANGED <<hubvars, geovars, parsevars, normvars>>

\* requests.post to /parse-news is over: "if parsed:" and, for a true value,
\* requests.post to /broadcast-incident
parse_news_via_api_return(reply) ==
    /\ mpc = "parse"
    /\ parse_reply' = reply
    /\ parsed' = parse_news_via_api(reply).value
    /\ IF parse_news_via_api(reply).raised
       THEN /\ mpc' = "raised"
            /\ UNCHANGED broadcast_calls
       ELSE IF Truthy(parse_news_via_api(reply).value)
       THEN /\ mpc' = "broadcast"
            /\ broadcast_calls' = broadcast_calls + 1
       ELSE /\ mpc' = "returned"
            /\ UNCHANGED broadcast_calls
    /\ UNCHANGED <<message_text, parse_calls, broadcast_reply>>
    /\ UNCHANGED <<hubvars, geovars, parsevars, normvars>>

\* requests.post to /broadcast-incident is over and the handler returns
monitor_broadcast_incident_return(reply) ==
    /\ mpc = "broadcast"
    /\ broadcast_reply' = reply
    /\ mpc' = IF monitor_broadcast_incident(reply).raised THEN "raised" ELSE "returned"
    /\ UNCHANGED <<message_text, parse_calls, broadcast_calls, parse_reply, parsed>>
    /\ UNCHANGED <<hubvars, geovars, parsevars, normvars>>

InitParseIdle ==
    /\ text = <<>>
    /\ api_key = TRUE
    /\ ppc = "none"
    /\ gemini_calls = 0
    /\ data = NoData
    /\ response = NoResponse

InitGeoIdle ==
    /\ glocation = "unset"
    /\ gpc = "idle"
    /\ gi = 0
    /\ gqueried = <<>>
    /\ gresult = NoResult

InitGeo ==
    /\ InitHub
    /\ InitNormIdle
    /\ InitMonIdle
    /\ InitParseIdle
    /\ InitGeoIdle
    /\ geo \in [1..NumQueries -> Outcomes]

NextGeo ==
    \/ geocode_street
    \/ geocode_response

SpecGeo == InitGeo /\ [][NextGeo]_vars

\* what the geocoder answers within a /parse-news request
RequestOutcomes == {Miss("empty"), Miss("error"), Hit(448000, 655000), Hit(448000, 657000)}

InitParse ==
    /\ InitHub
    /\ InitNormIdle
    /\ InitMonIdle
    /\ InitGeoIdle
    /\ geo \in [1..NumQueries -> RequestOutcomes]
    /\ text \in Texts
    /\ api_key \in BOOLEAN
    /\ ppc = "idle"
    /\ gemini_calls = 0
    /\ data = NoData
    /\ response = NoResponse

NextParse ==
    \/ parse_news
    \/ \E f \in GeminiFailures : gemini_failure(f)
    \/ \E model_text \in ModelTexts : gemini_text(model_text)
    \/ parse_geocode_response

SpecParse == InitParse /\ [][NextParse]_vars

\* ------------------------------------------------------------------------
\* The event loop: /parse-news together with /ws and /broadcast-incident
\* parse_news is "async def" but awaits nothing: parse_with_gemini and
\* geocode_street call requests.post and requests.get, which block the thread
\* of the event loop until the response is there. No other coroutine is
\* resumed while the handler is inside such a call.
\* ------------------------------------------------------------------------
Blocked == ppc \in {"gemini", "geocode"}

\* whether the event loop can resume a coroutine
LoopRuns == ~Blocked

LoopConns == {1}
LoopBcasts == {1}
LoopReplies ==
    {Garbage,
     [kind |-> "object", location |-> "ulitsa Abaya", event_type |-> "accident",
      severity |-> "medium", duration |-> "2 hours"]}

loop_broadcast_incident(b) == LoopRuns /\ broadcast_incident(b)
loop_broadcast_send_return(b, ok) == LoopRuns /\ broadcast_send_return(b, ok)
loop_websocket_endpoint(w) == LoopRuns /\ websocket_endpoint(w)
loop_accept_return(w) == LoopRuns /\ accept_return(w)
loop_receive_return(w) == LoopRuns /\ receive_return(w)
loop_receive_raise(w, exc) == LoopRuns /\ receive_raise(w, exc)
loop_echo_return(w) == LoopRuns /\ echo_return(w)

InitLoop ==
    /\ InitHub
    /\ InitNormIdle
    /\ InitMonIdle
    /\ InitGeoIdle
    /\ geo \in [1..NumQueries -> {Miss("empty"), Hit(448000, 655000)}]
    /\ text \in Texts
    /\ api_key = TRUE
    /\ ppc = "idle"
    /\ gemini_calls = 0
    /\ data = NoData
    /\ response = NoResponse

\* the steps of /ws and /broadcast-incident, whether or not the loop runs
HubWork ==
    \/ \E b \in LoopBcasts : broadcast_incident(b)
    \/ \E b \in LoopBcasts, ok \in BOOLEAN : broadcast_send_return(b, ok)
    \/ \E w \in LoopConns : websocket_endpoint(w)
    \/ \E w \in LoopConns : accept_return(w)
    \/ \E w \in LoopConns : receive_return(w)
    \/ \E w \in LoopConns : receive_raise(w, "WebSocketDisconnect")
    \/ \E w \in LoopConns : echo_return(w)

NextLoop ==
    \/ parse_news
    \/ \E f \in GeminiFailures : gemini_failure(f)
    \/ \E model_text \in LoopReplies : gemini_text(model_text)
    \/ parse_geocode_response
    \/ \E b \in LoopBcasts : loop_broadcast_incident(b)
    \/ \E b \in LoopBcasts, ok \in BOOLEAN : loop_broadcast_send_return(b, ok)
    \/ \E w \in LoopConns : loop_websocket_endpoint(w)
    \/ \E w \in LoopConns : loop_accept_return(w)
    \/ \E w \in LoopConns : loop_receive_return(w)
    \/ \E w \in LoopConns : loop_receive_raise(w, "WebSocketDisconnect")
    \/ \E w \in LoopConns : loop_echo_return(w)

SpecLoop == InitLoop /\ [][NextLoop]_vars

InitNormalize ==
    /\ InitHub
    /\ InitGeoIdle
    /\ geo = [i \in 1..NumQueries |-> Miss("empty")]
    /\ InitParseIdle
    /\ nvalue \in Values
    /\ \E fenced \in BOOLEAN, comma \in BOOLEAN, comment \in Comments :
          ntext = Decorated(nvalue, fenced, comma, comment)
    /\ npc = "call"
    /\ nresult = JSONDecodeError
    /\ InitMonIdle

NextNormalize == extract_json_call

SpecNormalize == InitNormalize /\ [][NextNormalize]_vars

InitHubOnly ==
    /\ InitHub
    /\ InitNormIdle
    /\ InitMonIdle
    /\ InitParseIdle
    /\ InitGeoIdle
    /\ geo = [i \in 1..NumQueries |-> Miss("empty")]

SpecHub == InitHubOnly /\ [][NextHub]_vars

NextManager ==
    \/ \E w \in Socks : manager_connect(w)
    \/ \E w \in Socks : manager_disconnect(w)

SpecManager == InitHubOnly /\ [][NextManager]_vars

\* ------------------------------------------------------------------------
\* Properties of the hub
\* ------------------------------------------------------------------------
Occurrences(s, x) == Cardinality({i \in 1..Len(s) : s[i] = x})

\* C1: a broadcast during which the observer list did not change attempts
\* every registered observer exactly once, delivers to every observer whose
\* send did not raise, wherever the failing ones are, and never raises.
C1_BroadcastIsolatesFailures ==
    \A b \in Bcasts :
        /\ bstate[b].pc # "raised"
        /\ (bstate[b].pc = "done" /\ ~bstate[b].changed) =>
              /\ Range(bstate[b].attempted) = bstate[b].start
              /\ \A w \in bstate[b].start : Occurrences(bstate[b].attempted, w) = 1
              /\ bstate[b].delivered = bstate[b].start \ bstate[b].failed

\* a finished broadcast in which a failing observer precedes a served one
C1_Witness ==
    \E b \in Bcasts :
        /\ bstate[b].pc = "done" /\ ~bstate[b].changed
        /\ \E i, j \in 1..Len(bstate[b].attempted) :
              /\ i < j
              /\ bstate[b].attempted[i] \in bstate[b].failed
              /\ bstate[b].attempted[j] \in bstate[b].delivered

\* C2: with connects and disconnects interleaved at the send suspension
\* points, the broadcast does not crash and every observer registered from
\* its start to its end is attempted exactly once.
C2_NoSkipUnderInterleaving ==
    \A b \in Bcasts :
        /\ bstate[b].pc # "raised"
        /\ bstate[b].pc = "done" =>
              \A w \in bstate[b].stayed : Occurrences(bstate[b].attempted, w) = 1

\* C9: disconnect of a websocket that is not in the list raises nothing and
\* leaves the list as it was.
C9_UnregisterIdempotent ==
    (mcall.op = "disconnect" /\ mcall.ws \notin Range(mcall.before)) =>
        /\ mcall.raised = "none"
        /\ active_connections = mcall.before

BroadcastStep ==
    \E b \in Bcasts :
        \/ bstate'[b].pc # bstate[b].pc
        \/ bstate'[b].attempted # bstate[b].attempted
        \/ bstate'[b].failed # bstate[b].failed
        \/ bstate'[b].delivered # bstate[b].delivered

\* C10: a step of broadcast, a failed send included, leaves the observer
\* list unchanged, and an observer leaves the list only in the step in which
\* its /ws handler handles WebSocketDisconnect by calling disconnect.
C10_OnlyDisconnectRemoves ==
    [][ /\ BroadcastStep => active_connections' = active_connections
        /\ \A w \in Conns :
              (w \in Range(active_connections) /\ w \notin Range(active_connections')) =>
                  (hpc[w] \in {"receive", "echo"} /\ hpc'[w] = "closed") ]_vars

\* a finished broadcast whose send to an observer raised, the observer still listed
C10_Witness ==
    \E b \in Bcasts :
        /\ bstate[b].pc = "done"
        /\ bstate[b].failed \cap Range(active_connections) # {}

\* ------------------------------------------------------------------------
\* Properties of geocode_street
\* ------------------------------------------------------------------------
ValidHit(i) == geo[i].kind = "hit" /\ InBounds(geo[i].lat, geo[i].lon)

ValidCandidates == {i \in 1..NumQueries : ValidHit(i)}

FirstValid == CHOOSE i \in ValidCandidates : \A j \in ValidCandidates : i <= j

\* C3: for a location string, whatever the geocoder does on the other
\* candidates, when the query of some candidate gives a hit inside the bounds
\* geocode_street returns the hit of the first such candidate, not the
\* city center.
C3_ValidHitIsReturned ==
    (gpc = "returned" /\ glocation = "str" /\ ValidCandidates # {}) =>
        gresult = Coords(geo[FirstValid].lat, geo[FirstValid].lon)

WithinBox(c) ==
    /\ c.kind = "coords"
    /\ LatMin <= c.lat /\ c.lat <= LatMax
    /\ LonMin <= c.lng /\ c.lng <= LonMax

EventTypes == {"road_work", "accident", "emergency", "repair", "road_closure", "other"}

Downgraded(v, allowed, default) == IF v \in allowed THEN v ELSE default

Parseable ==
    /\ data.kind = "object"
    /\ data.location \notin {Missing, Null, ""}
    /\ data.duration \notin {Missing, Null, ""}
    /\ data.event_type \notin {Missing, ""}
    /\ data.severity # Missing

\* C6: for a parseable reply, an event_type or severity outside its
\* enumerated set is replaced by the default (other, low) and the record does
\* not fail, so every Incident returned has both drawn from their sets.
C6_OutOfSetDowngraded ==
    (ppc = "done" /\ Parseable) =>
        /\ response.status = 200
        /\ response.incident.event_type = Downgraded(data.event_type, EventTypes, "other")
        /\ response.incident.severity = Downgraded(data.severity, Severity, "low")
        /\ response.incident.event_type \in EventTypes
        /\ response.incident.severity \in Severity

NonEmpty(v) == v \notin {Missing, Null, ""}

Complete(incident) ==
    /\ NonEmpty(incident.location)
    /\ NonEmpty(incident.event_type)
    /\ NonEmpty(incident.severity)
    /\ NonEmpty(incident.duration)
    /\ incident.coordinates.kind = "coords"

\* C7: a /parse-news request that passes the input check ends either with
\* 200 and an Incident whose required fields are all present and non-empty,
\* or with a 500 error response; never with a partially filled incident.
C7_CompleteOrError ==
    (ppc = "done" /\ ~IsBlank(text)) =>
        \/ response.status = 200 /\ Complete(response.incident)
        \/ response.status = 500 /\ response.incident = NoIncident

\* C8: for a text that is empty or only whitespace the request ends with
\* 400, and neither the generation service nor the geocoder is called.
C8_EmptyInputNoCalls ==
    Strip(text) = <<>> =>
        /\ gemini_calls = 0
        /\ gqueried = <<>>
        /\ ppc \in {"idle", "done"}
        /\ ppc = "done" => response.status = 400

\* a whitespace-only, non-empty text was answered with 400
C8_Witness ==
    /\ ppc = "done"
    /\ text # <<>>
    /\ \A i \in 1..Len(text) : text[i] \in Whitespace
    /\ response.status = 400
    /\ api_key

\* C11: the count /broadcast-incident returns equals the number of observers
\* the event was attempted against in that broadcast, also when connects and
\* disconnects interleave with it; with no observer it is 0.
C11_CountEqualsAttempted ==
    \A b \in Bcasts :
        bstate[b].pc = "done" => bstate[b].connections = Len(bstate[b].attempted)

\* C12: the caller issues its broadcasts one after the other, so the events
\* an observer receives are in the order of the broadcast calls: the log of
\* each observer is strictly increasing in the number of the broadcast.
C12_DeliveredInBroadcastOrder ==
    \A w \in Conns :
        \A i, j \in 1..Len(received[w]) :
            i < j => received[w][i] < received[w][j]

\* an observer that received the events of two broadcasts
C12_Witness ==
    \E w \in Conns :
        /\ Len(received[w]) >= 2
        /\ received[w][1] = 1
        /\ received[w][2] = 2
        /\ bstate[2].pc = "done"

\* ------------------------------------------------------------------------
\* Properties of the event loop
\* ------------------------------------------------------------------------
\* C13: while a /parse-news request waits for the generation service or for
\* a geocoding call, the other work of the process (a broadcast, a keepalive
\* echo, a connect or disconnect) that has a step to take can take it.
C13_ExternalCallDoesNotBlock ==
    (ppc \in {"gemini", "geocode"} /\ ENABLED HubWork) => LoopRuns

\* ------------------------------------------------------------------------
\* Properties of _extract_json
\* ------------------------------------------------------------------------
\* C14: for a clean reply x, _extract_json of x wrapped in fence markers,
\* with a trailing comma before the closing brace or with a line or block
\* comment inserted gives the record json.loads gives for x: the member of x
\* with its string value unaltered, whatever the value contains.
C14_DecorationsRecovered ==
    npc = "done" => nresult = json_loads(CleanReply(nvalue))

\* ------------------------------------------------------------------------
\* More properties of geocode_street and /parse-news
\* ------------------------------------------------------------------------
\* C15: a transport error, a timeout or a malformed response on a candidate
\* counts as no result for that candidate only: when geocode_street is over,
\* every candidate after such a candidate has been queried too, up to a hit
\* inside the bounds or the end of the list.
C15_ErrorDoesNotAbort ==
    gpc = "returned" =>
        \A i \in 1..(NumQueries - 1) :
            (i \in Range(gqueried) /\ geo[i].kind \in RaisingKinds) =>
                (i + 1) \in Range(gqueried)

\* the reply was normalized into a valid record: a JSON object whose required
\* fields pass the validation of ParsedNews
NormalizedOk == data.kind = "object" /\ ParsedNews(data, CityCenter).raised = "none"

\* C16: a request that passes the input check, the credential being set,
\* makes exactly one call to the generation service and at most one
\* geocoding call per candidate, in list order and with no retry; geocoding
\* starts only after the reply was normalized successfully, and no candidate
\* is queried after one gave a hit inside the bounds.
C16_CallsBoundedAndOrdered ==
    /\ gemini_calls <= 1
    /\ (ppc = "done" /\ Strip(text) # <<>> /\ api_key) => gemini_calls = 1
    /\ Len(gqueried) <= NumQueries
    /\ \A i \in 1..Len(gqueried) : gqueried[i] = i
    /\ \A i \in 1..(Len(gqueried) - 1) : ~ValidHit(gqueried[i])
    /\ gqueried # <<>> => (gemini_calls = 1 /\ NormalizedOk)


\* the reply is a record whose fields other than duration are all valid
ValidButDuration ==
    /\ data.kind = "object"
    /\ NonEmpty(data.location)
    /\ data.event_type \in EventTypes
    /\ data.severity \in Severity

\* C17: when the reply is a parseable record whose duration is missing or
\* null, the other fields being valid, the request does not fail: it ends
\* with 200 and an Incident whose duration is the literal "unknown".
C17_DurationDefaultsToUnknown ==
    (ppc = "done" /\ ValidButDuration /\ data.duration \in {Missing, Null}) =>
        /\ response.status = 200
        /\ response.incident.duration = "unknown"


(***************************************************************************)
(* More properties of the connection lifetime                              *)
(***************************************************************************)

\* the /ws handler of w is over: it returned after a disconnect, or an
\* exception left it
Terminated(w) == hpc[w] \in {"closed", "crashed"}

\* C18: once the /ws handler of a connection has terminated, by a client
\* disconnect or by a failure of its receive or of its keepalive send, the
\* connection is no longer in active_connections.
C18_TerminatedNotInSet ==
    \A w \in Conns : Terminated(w) => w \notin Range(active_connections)


\* broadcast b calls send_json on w in this step
Attempts(b, w) ==
    /\ Len(bstate'[b].attempted) = Len(bstate[b].attempted) + 1
    /\ bstate'[b].attempted[Len(bstate'[b].attempted)] = w

\* C19: a connection is added to the list only after its accept completed
\* and at most once; every broadcast that starts after its register and ends
\* before its unregister attempts delivery to it; and no broadcast attempts
\* delivery to a connection that was unregistered.
C19_ConnectionLifecycle ==
    [][ /\ \A w \in Conns :
              /\ Occurrences(active_connections', w) <= 1
              /\ w \in Range(active_connections') => w \in accepted'
              /\ (w \notin Range(active_connections) /\ w \in Range(active_connections')) =>
                    (hpc[w] = "accept" /\ hpc'[w] = "receive")
        /\ \A b \in Bcasts :
              bstate'[b].pc = "done" =>
                  \A w \in bstate'[b].stayed : w \in Range(bstate'[b].attempted)
        /\ \A b \in Bcasts : \A w \in Conns :
              (hpc[w] = "closed" \/ w \notin Range(active_connections)) => ~Attempts(b, w) ]_vars

(***************************************************************************)
(* The channel monitor on its own                                          *)
(***************************************************************************)
InitMonitor ==
    /\ InitHub
    /\ InitGeoIdle
    /\ geo = [i \in 1..NumQueries |-> Miss("empty")]
    /\ InitParseIdle
    /\ InitNormIdle
    /\ InitMonIdle

NextMonitor ==
    \/ \E m \in Messages : handler(m)
    \/ \E reply \in Replies : parse_news_via_api_return(reply)
    \/ \E reply \in Replies : monitor_broadcast_incident_return(reply)

SpecMonitor == InitMonitor /\ [][NextMonitor]_vars

\* C20: for every message of the channel, a message that is empty or shorter
\* than 10 characters after trimming causes no /parse-news and no
\* /broadcast-incident call; any other message causes exactly one /parse-news
\* call, and at most one /broadcast-incident call, made only after that
\* /parse-news call answered 200 with a non-empty incident; a failed parse or
\* a failed broadcast never raises out of the handler.
C20_MonitorCalls ==
    /\ mpc # "raised"
    /\ (message_text.none \/ Len(Strip(message_text.text)) < MinLength) =>
          (parse_calls = 0 /\ broadcast_calls = 0 /\ mpc \in {"idle", "returned"})
    /\ (~message_text.none /\ Len(Strip(message_text.text)) >= MinLength) => parse_calls = 1
    /\ broadcast_calls <= 1
    /\ broadcast_calls = 1 =>
          /\ parse_reply.kind = "response"
          /\ parse_reply.status = 200
          /\ parse_reply.body = "incident"
    /\ mpc = "broadcast" => broadcast_calls = 1

\* a padded message of 10 characters after trimming was parsed and broadcast,
\* the broadcast call failed, and the handler returned
C20_Witness ==
    /\ mpc = "returned"
    /\ Len(Strip(message_text.text)) = MinLength
    /\ Len(message_text.text) > MinLength
    /\ parse_calls = 1
    /\ broadcast_calls = 1
    /\ broadcast_reply.kind = "raise"
====
